---------------------------- MODULE Spec2Model ----------------------------
(***************************************************************************)
(* iothub-explorer: the logout command, the shared utilities of common.js  *)
(* and the simulate-device command, as one state machine.                  *)
(*                                                                         *)
(* One behaviour is one shell session on one machine: the session file on  *)
(* disk persists between commands; logout may run any number of times and  *)
(* then simulate-device runs once, as a single node process whose          *)
(* callbacks and timers are dispatched one at a time by the event loop.    *)
(***************************************************************************)
EXTENDS Integers, Sequences, FiniteSets, TLC

(***************************************************************************)
(* Bounds of the exploration.                                              *)
(***************************************************************************)
\* sendEvent calls explored in one run (the send timer itself is unbounded)
MaxSent == 3
\* inbound cloud-to-device messages the service delivers in one run
MaxArrivals == 3
\* client.close requests explored in one run
MaxClose == 2
\* largest --send-count / --receive-count given on the command line
MaxCount == 2

\* Number.MAX_SAFE_INTEGER (2^53 - 1), the default of sendCount and
\* receiveCount, held as the largest integer TLC represents: no counter of
\* the exploration comes near either value
MAX_SAFE_INTEGER == 2147483647

Undefined == "undefined"
\* the exit code of a process that has not exited
NoExit == 0 - 1
Null == "null"

(***************************************************************************)
(* The environment: the platform and the cached session file.              *)
(***************************************************************************)
Platforms == {"linux", "sunos"}
SessionFiles == {"absent", "empty", "token"}

(***************************************************************************)
(* Command-line values.                                                    *)
(***************************************************************************)
LoginArgs == {Undefined, "HostName=hub;SharedAccessKeyName=owner;SharedAccessKey=k", "garbage"}
ProtocolArgs == {Undefined, "amqp", "amqp-ws", "http", "mqtt", "MQTT", "coap"}
SettleArgs == {Undefined, "complete", "reject", "abandon", "discard"}
\* --send absent, --send without a value (true), or --send <message>
SendArgs == {Undefined, "true", "hello", "{\"a\":1}", "{\"messageId\":\"x\",\"body\":\"y\"}"}
UploadArgs == {Undefined, "present.bin", "missing.bin"}
\* a connection string is kept as the sequence of its pieces; the empty
\* sequence stands for an absent (undefined, null or empty) one
DeviceCS == <<"HostName=", "hub", ";", "DeviceId=", "dev1", ";", "SharedAccessKey=", "k">>
NoCS == <<>>
ConnectionStringArgs == {NoCS, DeviceCS}
DeviceIdArgs == {Undefined, "dev1"}

VARIABLES
    platform,       \* process.platform
    sessionFile,    \* the cached session-token file
    logoutOut,      \* what the last logout printed
    logoutExit,     \* how the last logout ended
    pc,             \* position of the simulate-device process
    program,        \* commander's parsed options and arguments
    sas,
    settleMethod,
    Protocol,
    sendCount,
    receiveCount,
    deviceConnectionString,
    deviceInfo,     \* the record registry.get answered with
    sendRunning,
    receiveRunning,
    uploadRunning,
    sendCounter,
    sendItv,        \* the send interval is set
    sendPending,    \* sendEvent calls whose callback is outstanding
    sent,           \* the messages handed to client.sendEvent, in order
    receiveCounter,
    listening,      \* onMessage is registered on 'message'
    arrivals,       \* messages the service has delivered so far
    settlePending,  \* settle calls whose callback is outstanding
    settled,        \* the settle methods invoked, in order
    uploadStage,    \* "none", "stat", "upload", "done"
    taskItv,        \* the drain interval is set
    closePending,   \* client.close calls whose callback is outstanding
    closeCalls,     \* client.close calls made
    registryCalls,  \* registry.get calls made
    openCalls,      \* client.open calls made
    uuidCount,      \* uuid.v4() calls made
    exitCode,       \* NoExit while running
    errorKind,      \* "none", "input", "service", "error", "uncaught"
    errorSite       \* where the process was halted

envVars == <<platform, sessionFile>>
logoutVars == <<logoutOut, logoutExit>>
setupVars == <<program, sas, settleMethod, Protocol, sendCount, receiveCount>>
sendVars == <<sendRunning, sendCounter, sendItv, sendPending, sent, uuidCount>>
recvVars == <<receiveRunning, receiveCounter, listening, arrivals, settlePending, settled>>
uploadVars == <<uploadRunning, uploadStage>>
drainVars == <<taskItv, closePending, closeCalls>>
netVars == <<registryCalls, openCalls>>
exitVars == <<exitCode, errorKind, errorSite>>
vars == <<envVars, logoutVars, pc, setupVars, deviceConnectionString, deviceInfo, sendVars,
          recvVars, uploadVars, drainVars, netVars, exitVars>>

(***************************************************************************)
(* common.js                                                               *)
(***************************************************************************)
\* JavaScript truthiness of a string-or-undefined value
Truthy(v) == v # Undefined /\ v # Null /\ v # ""

\* printError: prints and ends the process with exit code 1
PrintErrorHalt(kind, site) ==
    /\ exitCode' = 1
    /\ errorKind' = kind
    /\ errorSite' = site
    /\ pc' = "exited"

\* an exception nobody catches: node prints it and exits with code 1
UncaughtHalt(site) ==
    /\ exitCode' = 1
    /\ errorKind' = "uncaught"
    /\ errorSite' = site
    /\ pc' = "exited"

\* configLoc: the session file's place; ok is FALSE where the code reports
\* the input error "'login' not supported on this platform"
configLoc(p) ==
    CASE p = "darwin" -> [ok |-> TRUE, dir |-> "HOME/Library/Application Support/iothub-explorer", file |-> "config"]
      [] p = "linux"  -> [ok |-> TRUE, dir |-> "HOME", file |-> ".iothub-explorer"]
      [] p = "win32"  -> [ok |-> TRUE, dir |-> "LOCALAPPDATA/iothub-explorer", file |-> "config"]
      [] OTHER        -> [ok |-> FALSE, dir |-> Undefined, file |-> Undefined]

\* fs.readFileSync / fs.unlinkSync on the session file: the error codes the
\* file system can answer with ("ok" when the call succeeds)
FsOutcomes(file) == IF file = "absent" THEN {"ENOENT"} ELSE {"ok", "EACCES"}

FileContent(file) == IF file = "token" THEN "SharedAccessSignature sr=hub&sig=cached" ELSE ""

\* loadSasFromUserFile with a catch that swallows every read error
loadSasFromUserFileSwallowAll(p, file, outcome) ==
    IF ~configLoc(p).ok THEN [halt |-> "input", site |-> "configLoc", sas |-> Undefined]
    ELSE IF outcome = "ok" THEN [halt |-> "none", site |-> "", sas |-> FileContent(file)]
    ELSE [halt |-> "none", site |-> "", sas |-> Undefined]

\* loadSasFromUserFile, given the outcome of the read: ENOENT is swallowed,
\* any other error is thrown again
loadSasFromUserFile(p, file, outcome) ==
    IF ~configLoc(p).ok THEN [halt |-> "input", site |-> "configLoc", sas |-> Undefined]
    ELSE IF outcome = "ok" THEN [halt |-> "none", site |-> "", sas |-> FileContent(file)]
    ELSE IF outcome # "ENOENT" THEN [halt |-> "uncaught", site |-> "loadSasFromUserFile", sas |-> Undefined]
    ELSE [halt |-> "none", site |-> "", sas |-> Undefined]

\* ConnectionString.parse of azure-iothub: the three required fields or ArgumentError
ParseServiceCS(cs) ==
    IF cs = "HostName=hub;SharedAccessKeyName=owner;SharedAccessKey=k"
    THEN [ok |-> TRUE, HostName |-> "hub"]
    ELSE [ok |-> FALSE, HostName |-> Undefined]

\* getSas
getSas(connectionString, p, file, outcome) ==
    LET loaded == loadSasFromUserFile(p, file, outcome)
        r == IF Truthy(connectionString)
             THEN IF ParseServiceCS(connectionString).ok
                  THEN [halt |-> "none", site |-> "", sas |-> "SharedAccessSignature sr=hub&sig=fresh"]
                  ELSE [halt |-> "input", site |-> "getSas:parse", sas |-> Undefined]
             ELSE loaded
    IN  IF r.halt # "none" THEN r
        ELSE IF ~Truthy(r.sas) THEN [halt |-> "input", site |-> "getSas:nosas", sas |-> Undefined]
        ELSE r

\* getHostFromSas: the sr field of the token
getHostFromSas(token) == "hub"

\* deviceInfo before the registry has answered
NoDeviceInfo ==
    [deviceId |-> Undefined, primaryKey |-> Undefined, secondaryKey |-> Undefined,
     primaryThumbprint |-> Undefined, secondaryThumbprint |-> Undefined]

\* Device records the registry can answer with: authentication.SymmetricKey
\* and authentication.x509Thumbprint, an empty string where a field is unset
DeviceInfos ==
    { [deviceId |-> "dev1", primaryKey |-> "pk", secondaryKey |-> "sk",
       primaryThumbprint |-> "", secondaryThumbprint |-> ""],
      [deviceId |-> "dev1", primaryKey |-> "", secondaryKey |-> "",
       primaryThumbprint |-> "t1", secondaryThumbprint |-> ""],
      [deviceId |-> "dev1", primaryKey |-> "", secondaryKey |-> "sk",
       primaryThumbprint |-> "", secondaryThumbprint |-> ""],
      [deviceId |-> "dev1", primaryKey |-> "", secondaryKey |-> "",
       primaryThumbprint |-> "", secondaryThumbprint |-> "t2"],
      [deviceId |-> "dev1", primaryKey |-> "", secondaryKey |-> "",
       primaryThumbprint |-> "", secondaryThumbprint |-> ""] }

\* createDeviceConnectionString without the final else branch (cs = null)
createDeviceConnectionStringNeverNull(info, hubHostName) ==
    LET cs == <<"HostName=", hubHostName, ";", "DeviceId=", info.deviceId>>
    IN  IF Truthy(info.primaryKey)
        THEN cs \o <<";", "SharedAccessKey=", info.primaryKey>>
        ELSE IF Truthy(info.secondaryKey)
        THEN cs \o <<";", "SharedAccessKey=", info.secondaryKey>>
        ELSE IF Truthy(info.primaryThumbprint) \/ Truthy(info.secondaryThumbprint)
        THEN cs \o <<"x509=true">>
        ELSE cs

\* createDeviceConnectionString: the string as the sequence of the pieces
\* the code concatenates; null is the empty sequence
createDeviceConnectionString(info, hubHostName) ==
    LET cs == <<"HostName=", hubHostName, ";", "DeviceId=", info.deviceId>>
    IN  IF Truthy(info.primaryKey)
        THEN cs \o <<";", "SharedAccessKey=", info.primaryKey>>
        ELSE IF Truthy(info.secondaryKey)
        THEN cs \o <<";", "SharedAccessKey=", info.secondaryKey>>
        ELSE IF Truthy(info.primaryThumbprint) \/ Truthy(info.secondaryThumbprint)
        THEN cs \o <<"x509=true">>
        ELSE NoCS

\* JSON.parse on the message arguments explored: ok is FALSE for a
\* SyntaxError, as for 'hello' and for 'Simulated message: #0'.
JSONparse(text) ==
    CASE text = "{\"a\":1}" ->
            [ok |-> TRUE, value |-> [kind |-> "object", messageId |-> Undefined, body |-> Undefined]]
      [] text = "{\"messageId\":\"x\",\"body\":\"y\"}" ->
            [ok |-> TRUE, value |-> [kind |-> "object", messageId |-> "x", body |-> "y"]]
      [] OTHER -> [ok |-> FALSE, value |-> Undefined]

\* createMessage (inner function): new Message(body) with a fresh uuid
createMessage(body, ack, uuid) ==
    [kind |-> "Message", messageId |-> <<"uuid", uuid>>, body |-> body, ack |-> ack]

\* the value of the local variable `message` where line 48 reads
\* message.messageId: declared on line 36 and not assigned yet
MessageAtLine48(tmpMessage) == Undefined

\* createMessageFromArgument: [threw, message]; uuid is the value the next
\* uuid.v4() call returns
createMessageFromArgument(messageArg, ack, uuid) ==
    LET parsed == JSONparse(messageArg)
        message == MessageAtLine48(parsed.value)
    IN  IF ~parsed.ok
        THEN \* catch (e): e instanceof SyntaxError
             [threw |-> "none", message |-> createMessage(messageArg, ack, uuid)]
        ELSE IF message = Undefined
        THEN \* reading a property of undefined: TypeError, thrown again by the catch
             [threw |-> "TypeError", message |-> Undefined]
        ELSE IF Truthy(message.messageId)
        THEN [threw |-> "none", message |-> parsed.value]
        ELSE [threw |-> "none", message |-> createMessage(parsed.value, ack, uuid)]

(***************************************************************************)
(* iothub-explorer-simulate-device.js: the synchronous part of the script  *)
(***************************************************************************)
toLowerCase(arg) ==
    CASE arg = "MQTT" -> "mqtt"
      [] OTHER -> arg

\* verifyProtocol: the lower-cased value, or Undefined after an input error
verifyProtocol(arg) ==
    LET lowerCaseArg == toLowerCase(arg)
    IN  IF lowerCaseArg # "amqp" /\ lowerCaseArg # "amqp-ws" /\ lowerCaseArg # "http" /\ lowerCaseArg # "mqtt"
        THEN [ok |-> FALSE, value |-> Undefined]
        ELSE [ok |-> TRUE, value |-> lowerCaseArg]

\* verifySettle
verifySettle(arg) ==
    IF arg # "complete" /\ arg # "reject" /\ arg # "abandon"
    THEN [ok |-> FALSE, value |-> Undefined]
    ELSE [ok |-> TRUE, value |-> arg]

\* the option values commander stores: coerced values of --protocol and --settle
Parsed(argv) ==
    [argv EXCEPT !.protocol = IF argv.protocol = Undefined THEN Undefined ELSE verifyProtocol(argv.protocol).value,
                 !.settle = IF argv.settle = Undefined THEN Undefined ELSE verifySettle(argv.settle).value]

\* the input errors raised while commander parses the options
ParseErrorSites(argv) ==
    (IF argv.protocol # Undefined /\ ~verifyProtocol(argv.protocol).ok THEN {"verifyProtocol"} ELSE {})
    \cup (IF argv.settle # Undefined /\ ~verifySettle(argv.settle).ok THEN {"verifySettle"} ELSE {})

\* truthiness of a connection string
Given(connectionString) == connectionString # NoCS

\* line 65 without its second disjunct
CredentialsConflictNeitherOnly(connectionString, token) ==
    ~Given(connectionString) /\ ~Truthy(token)

\* line 65
CredentialsConflict(connectionString, token) ==
    \/ (~Given(connectionString) /\ ~Truthy(token))
    \/ (Given(connectionString) /\ Truthy(token))

\* line 69
NoDevice(connectionString, arg0) == ~Given(connectionString) /\ ~Truthy(arg0)

\* line 73
NothingToDo(prog) == ~Truthy(prog.send) /\ ~prog.receive /\ ~Truthy(prog.uploadFile)

\* line 77
SettleMethodOf(prog) == IF Truthy(prog.settle) THEN prog.settle ELSE "complete"

\* line 79
ProtocolArgOf(prog) == IF Truthy(prog.protocol) THEN prog.protocol ELSE "amqp"

\* lines 81-97: the transport selected
ProtocolOf(protocolArg) ==
    CASE protocolArg = "amqp-ws" -> "AmqpWs"
      [] protocolArg = "http" -> "Http"
      [] protocolArg = "mqtt" -> "Mqtt"
      [] OTHER -> "Amqp"

\* line 90 testing for one of the two forbidden policies only
MqttSettleConflictRejectOnly(protocolArg, method) == protocolArg = "mqtt" /\ method = "reject"

\* line 90
MqttSettleConflict(protocolArg, method) == protocolArg = "mqtt" /\ method # "complete"

\* lines 99-101: program.sendCount || Number.MAX_SAFE_INTEGER (0 stands for an
\* option that is absent, zero or not a number)
CountOrMax(n) == IF n = 0 THEN MAX_SAFE_INTEGER ELSE n

\* Lines 63-125 up to the first asynchronous call: where the script halts
\* (halt, site) or which call it issues (next: "registry" or "open").
TopLevel(prog, p, file, outcome) ==
    LET token == getSas(prog.login, p, file, outcome)
        method == SettleMethodOf(prog)
        protocolArg == ProtocolArgOf(prog)
        base == [halt |-> "none", site |-> "", next |-> "none", sas |-> token.sas,
                 settleMethod |-> method, Protocol |-> ProtocolOf(protocolArg)]
    IN  IF token.halt # "none"
        THEN [base EXCEPT !.halt = token.halt, !.site = token.site]
        ELSE IF CredentialsConflict(prog.connectionString, token.sas)
        THEN [base EXCEPT !.halt = "input", !.site = "credentials"]
        ELSE IF NoDevice(prog.connectionString, prog.deviceId)
        THEN [base EXCEPT !.halt = "input", !.site = "nodevice"]
        ELSE IF NothingToDo(prog)
        THEN [base EXCEPT !.halt = "input", !.site = "nothingtodo"]
        ELSE IF MqttSettleConflict(protocolArg, method)
        THEN [base EXCEPT !.halt = "input", !.site = "mqttsettle"]
        ELSE IF ~Truthy(prog.deviceId)
        THEN IF ~Given(prog.connectionString)
             THEN [base EXCEPT !.halt = "input", !.site = "nodevice2"]
             ELSE [base EXCEPT !.next = "open"]
        ELSE [base EXCEPT !.next = "registry"]

(***************************************************************************)
(* The state machine                                                       *)
(***************************************************************************)
NoArgs ==
    [connectionString |-> NoCS, login |-> Undefined, deviceId |-> Undefined,
     protocol |-> Undefined, settle |-> Undefined, send |-> Undefined, sendCount |-> 0,
     receive |-> FALSE, receiveCount |-> 0, uploadFile |-> Undefined]

\* The command lines explored. Either the options that decide the activities
\* vary freely while the credentials are the cached session token and a
\* device id, or the options that decide validation vary freely while the
\* activities are one of four plain requests.
ActivityVariety ==
    [connectionString : {NoCS}, login : {Undefined}, deviceId : {"dev1"},
     protocol : {Undefined}, settle : {Undefined, "abandon"}, send : SendArgs,
     sendCount : 0..MaxCount, receive : BOOLEAN, receiveCount : 0..MaxCount,
     uploadFile : UploadArgs]

PlainRequests ==
    { [NoArgs EXCEPT !.send = "true", !.sendCount = 1],
      [NoArgs EXCEPT !.receive = TRUE, !.receiveCount = 1],
      [NoArgs EXCEPT !.uploadFile = "missing.bin"],
      NoArgs }

ValidationVariety ==
    { [r EXCEPT !.connectionString = c, !.login = l, !.deviceId = d, !.protocol = p, !.settle = s] :
        r \in PlainRequests, c \in ConnectionStringArgs, l \in LoginArgs, d \in DeviceIdArgs,
        p \in ProtocolArgs, s \in SettleArgs }

ArgVectors == ActivityVariety \cup ValidationVariety

Init ==
    /\ platform \in Platforms
    /\ sessionFile \in SessionFiles
    /\ logoutOut = <<>>
    /\ logoutExit = NoExit
    /\ pc = "shell"
    /\ program = NoArgs
    /\ sas = Undefined
    /\ settleMethod = Undefined
    /\ Protocol = Undefined
    /\ sendCount = 0
    /\ receiveCount = 0
    /\ deviceConnectionString = NoCS
    /\ deviceInfo = NoDeviceInfo
    /\ sendRunning = FALSE
    /\ receiveRunning = FALSE
    /\ uploadRunning = FALSE
    /\ sendCounter = 0
    /\ sendItv = FALSE
    /\ sendPending = 0
    /\ sent = <<>>
    /\ receiveCounter = 0
    /\ listening = FALSE
    /\ arrivals = 0
    /\ settlePending = 0
    /\ settled = <<>>
    /\ uploadStage = "none"
    /\ taskItv = FALSE
    /\ closePending = 0
    /\ closeCalls = 0
    /\ registryCalls = 0
    /\ openCalls = 0
    /\ uuidCount = 0
    /\ exitCode = NoExit
    /\ errorKind = "none"
    /\ errorSite = ""

Halt(kind, site) ==
    IF kind = "uncaught" THEN UncaughtHalt(site) ELSE PrintErrorHalt(kind, site)

\* the logout command, from start to exit
Logout ==
    /\ pc = "shell"
    /\ IF ~configLoc(platform).ok
       THEN /\ logoutOut' = <<"Input Error:", "'login' not supported on this platform">>
            /\ logoutExit' = 1
            /\ UNCHANGED sessionFile
       ELSE \E outcome \in FsOutcomes(sessionFile) :
                IF outcome = "ok"
                THEN /\ sessionFile' = "absent"
                     /\ logoutOut' = <<"", "Session successfully terminated.">>
                     /\ logoutExit' = 0
                ELSE IF outcome = "ENOENT"
                THEN /\ logoutOut' = <<"Error:", "No session information found.">>
                     /\ logoutExit' = 1
                     /\ UNCHANGED sessionFile
                ELSE /\ logoutOut' = <<"uncaught", outcome>>
                     /\ logoutExit' = 1
                     /\ UNCHANGED sessionFile
    /\ UNCHANGED <<platform, pc, setupVars, deviceConnectionString, deviceInfo, sendVars, recvVars,
                   uploadVars, drainVars, netVars, exitVars>>

\* simulateDevice without the check of line 128
simulateDeviceUnchecked(prog, cs) ==
    /\ sendRunning' = Truthy(prog.send)
    /\ receiveRunning' = prog.receive
    /\ uploadRunning' = Truthy(prog.uploadFile)
    /\ openCalls' = openCalls + 1
    /\ pc' = "opening"
    /\ UNCHANGED exitVars

\* simulateDevice up to client.open (lines 127-136)
simulateDevice(prog, cs) ==
    IF ~Given(cs)
    THEN /\ UncaughtHalt("simulateDevice")
         /\ UNCHANGED <<sendRunning, receiveRunning, uploadRunning, openCalls>>
    ELSE /\ sendRunning' = Truthy(prog.send)
         /\ receiveRunning' = prog.receive
         /\ uploadRunning' = Truthy(prog.uploadFile)
         /\ openCalls' = openCalls + 1
         /\ pc' = "opening"
         /\ UNCHANGED exitVars

\* the simulate-device script, from start to its first asynchronous call
Simulate ==
    /\ pc = "shell"
    /\ \E argv \in ArgVectors, outcome \in FsOutcomes(sessionFile) :
        LET prog == Parsed(argv)
            r == TopLevel(prog, platform, sessionFile, outcome)
        IN  /\ program' = prog
            /\ IF ParseErrorSites(argv) # {}
               THEN /\ \E site \in ParseErrorSites(argv) : PrintErrorHalt("input", site)
                    /\ UNCHANGED <<sas, settleMethod, Protocol, sendCount, receiveCount,
                                   deviceConnectionString, sendRunning, receiveRunning,
                                   uploadRunning, netVars>>
               ELSE /\ sas' = r.sas
                    /\ IF r.halt # "none"
                       THEN /\ Halt(r.halt, r.site)
                            /\ UNCHANGED <<settleMethod, Protocol, sendCount, receiveCount,
                                           deviceConnectionString, sendRunning, receiveRunning,
                                           uploadRunning, netVars>>
                       ELSE /\ settleMethod' = r.settleMethod
                            /\ Protocol' = r.Protocol
                            /\ sendCount' = CountOrMax(prog.sendCount)
                            /\ receiveCount' = CountOrMax(prog.receiveCount)
                            /\ IF r.next = "open"
                               THEN /\ deviceConnectionString' = prog.connectionString
                                    /\ simulateDevice(prog, prog.connectionString)
                                    /\ UNCHANGED registryCalls
                               ELSE /\ registryCalls' = registryCalls + 1
                                    /\ pc' = "registry"
                                    /\ UNCHANGED <<deviceConnectionString, sendRunning, receiveRunning,
                                                   uploadRunning, openCalls, exitVars>>
    /\ UNCHANGED <<envVars, logoutVars, deviceInfo, sendCounter, sendItv, sendPending, sent,
                   uuidCount, receiveCounter, listening, arrivals, settlePending, settled,
                   uploadStage, drainVars>>

\* the callback of registry.get (lines 116-124)
RegistryCallback ==
    /\ pc = "registry"
    /\ \E err \in BOOLEAN, info \in DeviceInfos :
        IF err
        THEN /\ PrintErrorHalt("service", "registry.get")
             /\ UNCHANGED <<deviceConnectionString, deviceInfo, sendRunning, receiveRunning,
                            uploadRunning, openCalls>>
        ELSE LET cs == createDeviceConnectionString(info, getHostFromSas(sas))
             IN  /\ deviceInfo' = info
                 /\ deviceConnectionString' = cs
                 /\ simulateDevice(program, cs)
    /\ UNCHANGED <<envVars, logoutVars, setupVars, sendCounter, sendItv, sendPending, sent,
                   uuidCount, receiveCounter, listening, arrivals, settlePending, settled,
                   uploadStage, drainVars, registryCalls>>

\* the callback of client.open (lines 136-209)
OpenCallback ==
    /\ pc = "opening"
    /\ \E err \in BOOLEAN :
        IF err
        THEN /\ PrintErrorHalt("service", "client.open")
             /\ UNCHANGED <<sendCounter, sendItv, receiveCounter, listening, uploadStage, taskItv>>
        ELSE /\ sendCounter' = 0
             /\ sendItv' = Truthy(program.send)
             /\ receiveCounter' = 0
             /\ listening' = program.receive
             /\ uploadStage' = IF Truthy(program.uploadFile) THEN "stat" ELSE "none"
             /\ taskItv' = TRUE
             /\ pc' = "running"
             /\ UNCHANGED exitVars
    /\ UNCHANGED <<envVars, logoutVars, setupVars, deviceConnectionString, deviceInfo, sendRunning,
                   sendPending, sent, uuidCount, receiveRunning, arrivals, settlePending,
                   settled, uploadRunning, closePending, closeCalls, netVars>>

\* line 142: the argument of createMessageFromArgument
MessageArg(send, counter) ==
    IF send = "true" THEN "Simulated message: #" \o ToString(counter) ELSE send

\* one firing of the send interval (lines 141-154, up to client.sendEvent)
SendTick ==
    /\ pc = "running"
    /\ sendItv
    /\ Len(sent) < MaxSent
    /\ LET r == createMessageFromArgument(MessageArg(program.send, sendCounter), Undefined, uuidCount + 1)
       IN  IF r.threw # "none"
           THEN /\ UncaughtHalt("createMessageFromArgument")
                /\ UNCHANGED <<sent, sendPending, uuidCount>>
           ELSE /\ sent' = Append(sent, r.message)
                /\ sendPending' = sendPending + 1
                /\ uuidCount' = uuidCount + 1
                /\ UNCHANGED <<pc, exitVars>>
    /\ UNCHANGED <<envVars, logoutVars, setupVars, deviceConnectionString, deviceInfo, sendRunning,
                   sendCounter, sendItv, recvVars, uploadVars, drainVars, netVars>>

\* line 148
SendDone(counter, count) == counter = count

\* the callback of client.sendEvent (lines 143-153)
SendCallback ==
    /\ pc = "running"
    /\ sendPending > 0
    /\ sendPending' = sendPending - 1
    /\ \E err \in BOOLEAN :
        IF err
        THEN /\ PrintErrorHalt("service", "sendEvent")
             /\ UNCHANGED <<sendCounter, sendRunning, sendItv>>
        ELSE /\ sendCounter' = sendCounter + 1
             /\ IF SendDone(sendCounter + 1, sendCount)
                THEN /\ sendRunning' = FALSE
                     /\ sendItv' = FALSE
                ELSE UNCHANGED <<sendRunning, sendItv>>
             /\ UNCHANGED <<pc, exitVars>>
    /\ UNCHANGED <<envVars, logoutVars, setupVars, deviceConnectionString, deviceInfo, sent, uuidCount,
                   recvVars, uploadVars, drainVars, netVars>>

\* line 165 stopping one message late
ReceiveDoneLate(counter, count) == counter > count

\* line 165
ReceiveDone(counter, count) == counter = count

\* a cloud-to-device message reaches the client: onMessage (lines 159-175, up
\* to the settle call) runs if it is still registered, and nothing runs if
\* it has been removed
MessageArrives ==
    /\ pc = "running"
    /\ program.receive
    /\ arrivals < MaxArrivals
    /\ arrivals' = arrivals + 1
    /\ IF listening
       THEN /\ receiveCounter' = receiveCounter + 1
            /\ IF ReceiveDone(receiveCounter + 1, receiveCount)
               THEN /\ receiveRunning' = FALSE
                    /\ listening' = FALSE
               ELSE UNCHANGED <<receiveRunning, listening>>
            /\ settled' = Append(settled, settleMethod)
            /\ settlePending' = settlePending + 1
       ELSE UNCHANGED <<receiveCounter, receiveRunning, listening, settled, settlePending>>
    /\ UNCHANGED <<envVars, logoutVars, pc, setupVars, deviceConnectionString, deviceInfo, sendVars,
                   uploadVars, drainVars, netVars, exitVars>>

\* the callback of client[settleMethod] (lines 169-174)
SettleCallback ==
    /\ pc = "running"
    /\ settlePending > 0
    /\ settlePending' = settlePending - 1
    /\ \E err \in BOOLEAN :
        IF err
        THEN PrintErrorHalt("service", "settle")
        ELSE UNCHANGED <<pc, exitVars>>
    /\ UNCHANGED <<envVars, logoutVars, setupVars, deviceConnectionString, deviceInfo, sendVars,
                   receiveRunning, receiveCounter, listening, arrivals, settled,
                   uploadVars, drainVars, netVars>>

\* fs.stat on the upload path fails when the file is not there
StatFails(path) == path = "missing.bin"

\* the callback of fs.stat (lines 181-185, up to client.uploadToBlob)
StatCallback ==
    /\ pc = "running"
    /\ uploadStage = "stat"
    /\ IF StatFails(program.uploadFile)
       THEN /\ PrintErrorHalt("input", "fs.stat")
            /\ UNCHANGED uploadStage
       ELSE /\ uploadStage' = "upload"
            /\ UNCHANGED <<pc, exitVars>>
    /\ UNCHANGED <<envVars, logoutVars, setupVars, deviceConnectionString, deviceInfo, sendVars,
                   recvVars, uploadRunning, drainVars, netVars>>

\* the callback of client.uploadToBlob (lines 185-193)
UploadCallback ==
    /\ pc = "running"
    /\ uploadStage = "upload"
    /\ \E err \in BOOLEAN :
        IF err
        THEN /\ PrintErrorHalt("error", "uploadToBlob")
             /\ UNCHANGED <<uploadStage, uploadRunning>>
        ELSE /\ uploadStage' = "done"
             /\ uploadRunning' = FALSE
             /\ UNCHANGED <<pc, exitVars>>
    /\ UNCHANGED <<envVars, logoutVars, setupVars, deviceConnectionString, deviceInfo, sendVars,
                   recvVars, drainVars, netVars>>

\* line 198 looking at the send flag alone
AllDoneSendOnly(s, r, u) == ~s

\* line 198
AllDone(s, r, u) == ~s /\ ~r /\ ~u

\* one firing of the drain interval (lines 197-208, up to client.close)
DrainTick ==
    /\ pc = "running"
    /\ taskItv
    /\ IF AllDone(sendRunning, receiveRunning, uploadRunning)
       THEN /\ closeCalls < MaxClose
            /\ closeCalls' = closeCalls + 1
            /\ closePending' = closePending + 1
       ELSE UNCHANGED <<closeCalls, closePending>>
    /\ UNCHANGED <<envVars, logoutVars, pc, setupVars, deviceConnectionString, deviceInfo, sendVars,
                   recvVars, uploadVars, taskItv, netVars, exitVars>>

\* the callback of client.close (lines 200-206)
CloseCallback ==
    /\ pc = "running"
    /\ closePending > 0
    /\ closePending' = closePending - 1
    /\ \E err \in BOOLEAN :
        IF err
        THEN /\ PrintErrorHalt("service", "client.close")
             /\ UNCHANGED taskItv
        ELSE /\ taskItv' = FALSE
             /\ exitCode' = 0
             /\ pc' = "exited"
             /\ UNCHANGED <<errorKind, errorSite>>
    /\ UNCHANGED <<envVars, logoutVars, setupVars, deviceConnectionString, deviceInfo, sendVars,
                   recvVars, uploadVars, closeCalls, netVars>>

Next ==
    \/ Logout
    \/ Simulate
    \/ RegistryCallback
    \/ OpenCallback
    \/ SendTick
    \/ SendCallback
    \/ MessageArrives
    \/ SettleCallback
    \/ StatCallback
    \/ UploadCallback
    \/ DrainTick
    \/ CloseCallback

Spec == Init /\ [][Next]_vars

\* the event loop dispatches every due timer and every delivered callback
FairSpec ==
    /\ Spec
    /\ WF_vars(RegistryCallback)
    /\ WF_vars(OpenCallback)
    /\ WF_vars(SendTick)
    /\ WF_vars(SendCallback)
    /\ WF_vars(MessageArrives)
    /\ WF_vars(SettleCallback)
    /\ WF_vars(StatCallback)
    /\ WF_vars(UploadCallback)
    /\ WF_vars(DrainTick)
    /\ WF_vars(CloseCallback)

(***************************************************************************)
(* Properties                                                              *)
(***************************************************************************)
Started == pc # "shell"

\* C1: with --send and --send-count N (N >= 1), client.sendEvent is invoked
\* at most N times whatever the order of ticks and completions, and once N
\* sends have completed the send timer is stopped.
C1_ExactlyNSends ==
    (Started /\ Truthy(program.send) /\ program.sendCount >= 1) =>
        /\ Len(sent) <= program.sendCount
        /\ (sendCounter >= program.sendCount => ~sendItv)

\* C2: a failed upload is printed but does not halt the process, and marks
\* uploading complete.
C2_UploadFailureNonFatal ==
    errorSite = "uploadToBlob" => (exitCode = NoExit /\ ~uploadRunning)

\* the options other than the credentials are acceptable and the session file,
\* if any, can be read
OtherwiseAcceptable ==
    errorSite \notin {"verifyProtocol", "verifySettle", "nothingtodo", "mqttsettle",
                      "configLoc", "loadSasFromUserFile"}

\* C3: given --connection-string and neither --login nor a device id, the
\* script reaches client.open, whether or not a session file exists.
C3_ConnectionStringAloneConnects ==
    (Started /\ Given(program.connectionString) /\ program.login = Undefined
        /\ program.deviceId = Undefined /\ OtherwiseAcceptable) => openCalls >= 1

\* C4: given both --connection-string and --login, the script halts with an
\* input error (exit code 1) before any registry lookup and any client.open.
C4_BothCredentialsRejected ==
    (Started /\ Given(program.connectionString) /\ program.login # Undefined) =>
        /\ exitCode = 1
        /\ errorKind = "input"
        /\ registryCalls = 0
        /\ openCalls = 0

C4_Witness ==
    /\ pc = "exited"
    /\ Given(program.connectionString)
    /\ program.login = "HostName=hub;SharedAccessKeyName=owner;SharedAccessKey=k"
    /\ errorSite = "credentials"

\* C5: every input error, a missing upload file included, halts the process
\* before the registry lookup and before client.open.
C5_InputErrorsBeforeNetwork ==
    errorKind = "input" => (registryCalls = 0 /\ openCalls = 0)

C7_ExitZeroOnlyWhenAllDone ==
    /\ exitCode = 0 =>
            /\ ~sendRunning /\ ~receiveRunning /\ ~uploadRunning
            /\ closeCalls >= 1 /\ closePending < closeCalls
            /\ errorKind = "none"
    /\ closeCalls > 0 => (~sendRunning /\ ~receiveRunning /\ ~uploadRunning)

C7_Witness ==
    /\ exitCode = 0
    /\ Truthy(program.send) /\ program.receive /\ Truthy(program.uploadFile)
    /\ sendCounter = program.sendCount
    /\ receiveCounter = program.receiveCount

\* the counts requested are finite
FiniteRequests ==
    /\ Truthy(program.send) => program.sendCount >= 1
    /\ program.receive => program.receiveCount >= 1

\* C8: under fair scheduling, once the connection is open with finite counts,
\* the run ends by closing the connection (exit 0, or a service error from
\* close), unless a send or a settle fails or the upload file is missing.
C8_RunTerminatesByClose ==
    (pc = "running" /\ FiniteRequests) ~>
        \/ exitCode = 0
        \/ errorSite \in {"client.close", "sendEvent", "settle", "fs.stat"}

\* C9: logout with no session file prints "No session information found."
\* without taking the error path: no "Error:" prefix and no exit code 1.
C9_LogoutNoSessionIsNoError ==
    (Len(logoutOut) = 2 /\ logoutOut[2] = "No session information found.") =>
        (logoutOut[1] = "" /\ logoutExit = 0)

\* what createMessageFromArgument is to return for a message argument
ExpectedMessage(messageArg, m) ==
    LET parsed == JSONparse(messageArg)
    IN  IF parsed.ok /\ Truthy(parsed.value.messageId)
        THEN m = parsed.value
        ELSE /\ m.kind = "Message"
             /\ m.messageId[1] = "uuid"
             /\ m.body = IF parsed.ok THEN parsed.value ELSE messageArg

\* C10: for a --send <message> argument, createMessageFromArgument raises no
\* exception, returns parsed JSON that has a messageId unchanged, and wraps
\* anything else in a new envelope with a generated messageId.
C10_CreateMessageFromArgument ==
    (Started /\ Truthy(program.send) /\ program.send # "true") =>
        /\ errorSite # "createMessageFromArgument"
        /\ \A i \in 1..Len(sent) : ExpectedMessage(program.send, sent[i])

\* C8 apart from the two defects it meets: an upload failure that halts the
\* process and a JSON message argument that throws
C8_ApartFromKnownDefects ==
    (pc = "running" /\ FiniteRequests) ~>
        \/ exitCode = 0
        \/ errorSite \in {"client.close", "sendEvent", "settle", "fs.stat",
                          "uploadToBlob", "createMessageFromArgument"}

\* the pieces that begin a field of a connection string
FieldStarts == {"HostName=", "DeviceId=", "SharedAccessKey=", "x509=true"}

\* every field but the first is preceded by a ';'
SemicolonDelimited(cs) ==
    \A i \in 2..Len(cs) : cs[i] \in FieldStarts => cs[i - 1] = ";"

RegistryAnswered == deviceInfo # NoDeviceInfo

HasKeyOrThumbprint(info) ==
    \/ Truthy(info.primaryKey) \/ Truthy(info.secondaryKey)
    \/ Truthy(info.primaryThumbprint) \/ Truthy(info.secondaryThumbprint)

\* C11: for every device record with a key or a thumbprint the connection
\* string built from it has HostName, DeviceId and the third field
\* (SharedAccessKey or x509=true) each separated from the field before by ';'.
C11_SemicolonDelimited ==
    (RegistryAnswered /\ HasKeyOrThumbprint(deviceInfo)) =>
        /\ Given(deviceConnectionString)
        /\ SemicolonDelimited(deviceConnectionString)

\* C12: the connection string built from the registry's record is absent
\* exactly when the record has no key and no thumbprint, and the run then
\* never calls client.open and never exits with code 0.
C12_NullExactlyWithoutCredentials ==
    RegistryAnswered =>
        /\ ~Given(deviceConnectionString) <=> ~HasKeyOrThumbprint(deviceInfo)
        /\ ~HasKeyOrThumbprint(deviceInfo) => (openCalls = 0 /\ exitCode # 0 /\ pc = "exited")

C12_Witness ==
    /\ RegistryAnswered
    /\ ~HasKeyOrThumbprint(deviceInfo)
    /\ errorSite = "simulateDevice"
    /\ registryCalls = 1

\* getSas was called without a connection string: no --login, and commander
\* accepted the options
GetSasFromFile ==
    /\ Started
    /\ program.login = Undefined
    /\ errorSite \notin {"verifyProtocol", "verifySettle"}

\* C13: getSas without a connection string and without a cached token (file
\* never written, deleted by logout, or empty) halts with an input error and
\* returns nothing; only a missing file is swallowed by loadSasFromUserFile,
\* any other read failure ends the process as an exception, not an input error.
C13_GetSasWithoutSession ==
    GetSasFromFile =>
        /\ sessionFile = "absent" =>
                /\ exitCode = 1 /\ errorKind = "input"
                /\ errorSite \in {"getSas:nosas", "configLoc"}
                /\ sas = Undefined /\ registryCalls = 0 /\ openCalls = 0
        /\ sessionFile = "empty" =>
                /\ exitCode = 1
                /\ errorSite \in {"getSas:nosas", "configLoc", "loadSasFromUserFile"}
                /\ sas = Undefined /\ registryCalls = 0 /\ openCalls = 0
        /\ errorSite = "getSas:nosas" => (errorKind = "input" /\ sessionFile \in {"absent", "empty"})
        /\ errorSite = "loadSasFromUserFile" => (errorKind = "uncaught" /\ sessionFile # "absent")

C13_Witness ==
    /\ GetSasFromFile
    /\ logoutOut = <<"", "Session successfully terminated.">>
    /\ sessionFile = "absent"
    /\ errorSite = "getSas:nosas"
    /\ exitCode = 1

\* something of the stages after connecting has been started
LaterStageStarted ==
    \/ sendItv \/ listening \/ taskItv
    \/ uploadStage # "none"
    \/ Len(sent) > 0 \/ arrivals > 0 \/ closeCalls > 0

\* the open callback has run and reported success
OpenSucceeded ==
    /\ openCalls = 1
    /\ pc \in {"running", "exited"}
    /\ errorSite # "client.open"

\* C14: client.open is called only with a device connection string in hand
\* (after a successful lookup when a lookup was made); nothing of the later
\* stages starts unless the open callback reported success; a failed lookup
\* or a failed open halts with a service error and no later stage runs.
C14_StageOrdering ==
    /\ openCalls > 0 =>
            /\ Given(deviceConnectionString)
            /\ registryCalls > 0 => RegistryAnswered
    /\ LaterStageStarted => OpenSucceeded
    /\ errorSite \in {"registry.get", "client.open"} =>
            /\ exitCode = 1 /\ errorKind = "service" /\ pc = "exited"
            /\ ~LaterStageStarted
            /\ errorSite = "registry.get" => openCalls = 0

C14_Witness ==
    /\ errorSite = "client.open"
    /\ registryCalls = 1
    /\ openCalls = 1
    /\ Truthy(program.send) /\ program.receive /\ Truthy(program.uploadFile)

\* C15: with --receive and --receive-count N (N >= 1) at most N inbound
\* messages are handled; each one handled is counted and passed to the
\* selected settle method; at the N-th the listener is removed and receiving
\* is marked complete.
C15_ReceivesAtMostN ==
    (Started /\ program.receive /\ program.receiveCount >= 1) =>
        /\ receiveCounter <= program.receiveCount
        /\ receiveCounter <= arrivals
        /\ Len(settled) = receiveCounter
        /\ \A i \in 1..Len(settled) : settled[i] = SettleMethodOf(program)
        /\ receiveCounter = program.receiveCount => (~listening /\ ~receiveRunning)
        /\ (OpenSucceeded /\ receiveCounter < program.receiveCount) => receiveRunning

C15_Witness ==
    /\ program.receive
    /\ program.receiveCount = 2
    /\ receiveCounter = 2
    /\ arrivals = 3
    /\ settled = <<"abandon", "abandon">>
    /\ ~listening
    /\ ~receiveRunning
    /\ pc = "running"

\* C16: client.close is requested, and the process exits with code 0, only
\* when every sendEvent call and every settle call has had its callback.
C16_CloseOnlyWhenNothingOutstanding ==
    (closeCalls > 0 \/ exitCode = 0) => (sendPending = 0 /\ settlePending = 0)

\* C17: client.close is requested at most once in a run, however the drain
\* ticks interleave with the close callback.
C17_CloseRequestedOnce == closeCalls <= 1

\* C18: the i-th default message handed to sendEvent is
\* 'Simulated message: #' followed by i - 1, the number of messages sent
\* before it, which is also the number the i-th success line prints.
C18_SequenceNumbers ==
    (Started /\ program.send = "true") =>
        \A i \in 1..Len(sent) : sent[i].body = "Simulated message: #" \o ToString(i - 1)

====
